---------------------------- MODULE Spec2Model ----------------------------
(***************************************************************************)
(* Model of the patient deduplication and matching engine                  *)
(* (backend/src/utils/duplicateChecker.ts), of the record store it reads   *)
(* (the mongoose Patient collection) and of the routes that call it        *)
(* (backend/src/routes/extraction.ts), and of the content script of the   *)
(* extension that submits a form to them (GoogleFormsHandler).             *)
(*                                                                         *)
(* Representation.  A JavaScript string is a sequence of one-character     *)
(* strings.  A JavaScript object is a TLA+ record whose DOMAIN holds       *)
(* exactly the keys that are present: an absent (undefined) field is a     *)
(* key that is not in the DOMAIN.  A number score is an exact rational     *)
(* [num, den] with den > 0.                                                *)
(***************************************************************************)
EXTENDS Integers, Sequences, FiniteSets, TLC

VARIABLES
    store,          \* the patients collection, in insertion order
    pc,             \* "idle", or "broad" while findMatches waits between its two queries
    req,            \* the record the current/last engine call was given
    exactMatches,   \* findMatches' local exactMatches between its two queries
    queries,        \* the store queries issued by the current/last engine call
    result,         \* what the last completed handler returned
    failed,         \* the store query of the current/last engine call that was rejected
    ext,            \* the content script: its dialogs and the submission it handles
    calls,          \* engine calls in flight at the same time, each with its own locals
    bg,             \* the background script's handling of one extraction
    flows           \* form submissions handled by two tabs at the same time

vars == <<store, pc, req, exactMatches, queries, result, failed, ext, calls, bg, flows>>

-----------------------------------------------------------------------------
(* Strings                                                                 *)

Has(obj, key) == key \in DOMAIN obj

Max2(a, b) == IF a >= b THEN a ELSE b

Min2(a, b) == IF a <= b THEN a ELSE b

Min3(a, b, c) == Min2(a, Min2(b, c))

Abs(x) == IF x < 0 THEN 0 - x ELSE x

\* String.prototype.toLowerCase on one character (the letters the model uses)
ToLower(c) ==
    CASE c = "J" -> "j"
      [] c = "O" -> "o"
      [] c = "N" -> "n"
      [] c = "K" -> "k"
      [] OTHER -> c

ToLowerCase(str) == [i \in 1..Len(str) |-> ToLower(str[i])]

RECURSIVE TrimStart(_)
TrimStart(str) ==
    IF str # <<>> /\ Head(str) = " " THEN TrimStart(Tail(str)) ELSE str

RECURSIVE TrimEnd(_)
TrimEnd(str) ==
    IF str # <<>> /\ str[Len(str)] = " "
    THEN TrimEnd(SubSeq(str, 1, Len(str) - 1))
    ELSE str

\* String.prototype.trim
Trim(str) == TrimEnd(TrimStart(str))

\* str.replace(/\s+/g, ' '): every run of blanks becomes one blank
RECURSIVE CollapseSpaces(_)
CollapseSpaces(str) ==
    IF Len(str) < 2 THEN str
    ELSE IF str[1] = " " /\ str[2] = " "
         THEN CollapseSpaces(Tail(str))
         ELSE <<str[1]>> \o CollapseSpaces(Tail(str))

-----------------------------------------------------------------------------
(* new RegExp(source, 'i') and its test, for sources over literals, ".",   *)
(* "(" and ")".  The constructor throws a SyntaxError on an unterminated   *)
(* group or an unmatched ")".  A capturing group does not change what a    *)
(* pattern without quantifiers or alternation matches, so the compiled     *)
(* pattern is the source without its parentheses; the match is unanchored. *)

RECURSIVE GroupScan(_, _, _)
GroupScan(source, i, depth) ==
    IF i > Len(source) THEN depth
    ELSE IF source[i] = "(" THEN GroupScan(source, i + 1, depth + 1)
    ELSE IF source[i] = ")"
         THEN (IF depth = 0 THEN -1 ELSE GroupScan(source, i + 1, depth - 1))
    ELSE GroupScan(source, i + 1, depth)

\* FALSE: new RegExp(source, 'i') throws
RegExpValid(source) == GroupScan(source, 1, 0) = 0

RegExpAtoms(source) == SelectSeq(source, LAMBDA c : c \notin {"(", ")"})

\* new RegExp(source, 'i').test(str), for a source that compiles
RegExpTest(source, str) ==
    LET atoms == RegExpAtoms(source) IN
    \E i \in 0..(Len(str) - Len(atoms)) :
        \A j \in 1..Len(atoms) :
            \/ atoms[j] = "."
            \/ ToLower(atoms[j]) = ToLower(str[i + j])

-----------------------------------------------------------------------------
(* Similarity scorer                                                       *)

Rat(n, d) == [num |-> n, den |-> d]

RatGT(a, b) == a.num * b.den > b.num * a.den

\* the normal form without the lowercasing
normalizeCaseSensitive(str) == CollapseSpaces(Trim(str))

normalize(str) == CollapseSpaces(Trim(ToLowerCase(str)))

\* one row of the matrix with the indicator always 1
RECURSIVE FillRowAlwaysOne(_, _, _, _, _)
FillRowAlwaysOne(n1, n2, j, prev, cur) ==
    LET i == Len(cur) IN
    IF i > Len(n1) THEN cur
    ELSE LET cell == Min3(cur[i] + 1, prev[i + 1] + 1, prev[i] + 1)
         IN  FillRowAlwaysOne(n1, n2, j, prev, Append(cur, cell))

\* one row of the matrix, left to right: cur holds matrix[j][0..Len(cur)-1]
RECURSIVE FillRow(_, _, _, _, _)
FillRow(n1, n2, j, prev, cur) ==
    LET i == Len(cur) IN
    IF i > Len(n1) THEN cur
    ELSE LET indicator == IF n1[i] = n2[j] THEN 0 ELSE 1
             cell == Min3(cur[i] + 1, prev[i + 1] + 1, prev[i] + indicator)
         IN  FillRow(n1, n2, j, prev, Append(cur, cell))

RECURSIVE FillMatrix(_, _, _, _)
FillMatrix(n1, n2, j, prev) ==
    IF j > Len(n2) THEN prev
    ELSE FillMatrix(n1, n2, j + 1, FillRow(n1, n2, j, prev, <<j>>))

\* matrix[n2.length][n1.length]
EditDistance(n1, n2) ==
    FillMatrix(n1, n2, 1, [i \in 1..(Len(n1) + 1) |-> i - 1])[Len(n1) + 1]

\* the similarity relative to the first name's length
calculateNameSimilarityOfFirst(name1, name2) ==
    LET n1 == normalize(name1)
        n2 == normalize(name2)
        maxLength == Len(n1)
    IN  IF n1 = n2 THEN Rat(1, 1)
        ELSE IF maxLength = 0 THEN Rat(1, 1)
        ELSE Rat(maxLength - EditDistance(n1, n2), maxLength)

calculateNameSimilarity(name1, name2) ==
    LET n1 == normalize(name1)
        n2 == normalize(name2)
        maxLength == Max2(Len(n1), Len(n2))
    IN  IF n1 = n2 THEN Rat(1, 1)
        ELSE IF maxLength = 0 THEN Rat(1, 1)
        ELSE Rat(maxLength - EditDistance(n1, n2), maxLength)


\* a truthy string field: present and not the empty string
Truthy(obj, key) == Has(obj, key) /\ obj[key] # <<>>

\* a truthy enumeration field (a country tag): present and not ""
TruthyTag(obj, key) == Has(obj, key) /\ obj[key] # ""

\* a truthy number field: present and not 0
TruthyNum(obj, key) == Has(obj, key) /\ obj[key] # 0

\* the identifier keys calculateOverallMatchScore compares, in its order
ScoreFields == <<"nhsNumber", "mrn", "hospitalUidAadhaar", "ssn", "healthInsurancePolicyNumber">>

\* the keys on which both sides carry a truthy value
CommonFields(searchData, patient) ==
    IF Has(searchData, "countryData") /\ Has(patient, "countryData")
    THEN {i \in 1..Len(ScoreFields) :
             /\ Truthy(searchData.countryData, ScoreFields[i])
             /\ Truthy(patient.countryData, ScoreFields[i])}
    ELSE {}

\* the score as the weighted sum over all four weights, included or not
calculateOverallMatchScoreOfAll(searchData, patient) ==
    LET nameIn == Truthy(searchData, "name")
        nameScore == IF nameIn
                     THEN calculateNameSimilarity(searchData.name, patient.name)
                     ELSE Rat(0, 1)
        ageIn == Has(searchData, "age")
        ageScore == IF ageIn
                    THEN (IF searchData.age = patient.age THEN Rat(1, 1)
                          ELSE Rat(Max2(0, 10 - Abs(searchData.age - patient.age)), 10))
                    ELSE Rat(0, 1)
        countryIn == TruthyTag(searchData, "country")
        countryScore == IF countryIn /\ searchData.country = patient.country
                        THEN Rat(1, 1) ELSE Rat(0, 1)
        common == CommonFields(searchData, patient)
        countryFieldCount == Cardinality(common)
        countryFieldScore ==
            Cardinality({i \in common :
                searchData.countryData[ScoreFields[i]] = patient.countryData[ScoreFields[i]]})
        fieldsIn == countryFieldCount > 0
        fieldsScore == IF fieldsIn THEN Rat(countryFieldScore, countryFieldCount)
                       ELSE Rat(0, 1)
        totalWeight == (IF nameIn THEN 4 ELSE 0) + (IF ageIn THEN 2 ELSE 0)
                       + (IF countryIn THEN 1 ELSE 0) + (IF fieldsIn THEN 3 ELSE 0)
        d == nameScore.den * ageScore.den * fieldsScore.den
        score == 4 * nameScore.num * ageScore.den * fieldsScore.den
                 + 2 * ageScore.num * nameScore.den * fieldsScore.den
                 + 1 * countryScore.num * d
                 + 3 * fieldsScore.num * nameScore.den * ageScore.den
    IN  IF totalWeight > 0 THEN Rat(score, 10 * d) ELSE Rat(0, 1)

\* scores are kept exact: the weights are counted in tenths (0.4 is 4)
calculateOverallMatchScore(searchData, patient) ==
    LET nameIn == Truthy(searchData, "name")
        nameScore == IF nameIn
                     THEN calculateNameSimilarity(searchData.name, patient.name)
                     ELSE Rat(0, 1)
        ageIn == Has(searchData, "age")
        ageScore == IF ageIn
                    THEN (IF searchData.age = patient.age THEN Rat(1, 1)
                          ELSE Rat(Max2(0, 10 - Abs(searchData.age - patient.age)), 10))
                    ELSE Rat(0, 1)
        countryIn == TruthyTag(searchData, "country")
        countryScore == IF countryIn /\ searchData.country = patient.country
                        THEN Rat(1, 1) ELSE Rat(0, 1)
        common == CommonFields(searchData, patient)
        countryFieldCount == Cardinality(common)
        countryFieldScore ==
            Cardinality({i \in common :
                searchData.countryData[ScoreFields[i]] = patient.countryData[ScoreFields[i]]})
        fieldsIn == countryFieldCount > 0
        fieldsScore == IF fieldsIn THEN Rat(countryFieldScore, countryFieldCount)
                       ELSE Rat(0, 1)
        totalWeight == (IF nameIn THEN 4 ELSE 0) + (IF ageIn THEN 2 ELSE 0)
                       + (IF countryIn THEN 1 ELSE 0) + (IF fieldsIn THEN 3 ELSE 0)
        d == nameScore.den * ageScore.den * fieldsScore.den
        score == 4 * nameScore.num * ageScore.den * fieldsScore.den
                 + 2 * ageScore.num * nameScore.den * fieldsScore.den
                 + 1 * countryScore.num * d
                 + 3 * fieldsScore.num * nameScore.den * ageScore.den
    IN  IF totalWeight > 0 THEN Rat(score, totalWeight * d) ELSE Rat(0, 1)

-----------------------------------------------------------------------------
(* Country field validator                                                 *)

Digits == {"0", "1", "2", "3", "4", "5", "6", "7", "8", "9"}

\* /^[0-9]{10}$/.test(v)
IsNhsNumber(v) == Len(v) = 10 /\ \A i \in 1..Len(v) : v[i] \in Digits

\* /^[0-9]{3}-[0-9]{2}-[0-9]{4}$/.test(v)
IsSsn(v) ==
    /\ Len(v) = 11
    /\ \A i \in 1..Len(v) : IF i \in {4, 7} THEN v[i] = "-" ELSE v[i] \in Digits

RequiredKey(country) ==
    CASE country = "UK" -> "nhsNumber"
      [] country = "US" -> "mrn"
      [] country = "India" -> "hospitalUidAadhaar"
      [] country = "Japan" -> "hospitalPatientID"

RequiredMessage(country) ==
    CASE country = "UK" -> "NHS Number is required"
      [] country = "US" -> "Medical Record Number is required"
      [] country = "India" -> "Hospital UID/Aadhaar is required"
      [] country = "Japan" -> "Hospital Patient ID is required"

\* the errors the call pushes, in order
validateCountrySpecificFields(data) ==
    IF ~TruthyTag(data, "country") \/ ~Has(data, "countryData") THEN <<>>
    ELSE
        LET cd == data.countryData
            country == data.country
        IN  (IF ~Truthy(data, "name") THEN <<"Name is required">> ELSE <<>>)
            \o (IF ~TruthyNum(data, "age") THEN <<"Age is required">> ELSE <<>>)
            \o (IF ~Truthy(cd, RequiredKey(country))
                THEN <<RequiredMessage(country)>>
                ELSE IF country = "UK" /\ ~IsNhsNumber(cd.nhsNumber)
                     THEN <<"NHS Number must be 10 digits">>
                     ELSE <<>>)
            \o (IF country = "US" /\ Truthy(cd, "ssn") /\ ~IsSsn(cd.ssn)
                THEN <<"SSN must be in format XXX-XX-XXXX">>
                ELSE <<>>)

-----------------------------------------------------------------------------
(* The record store: Patient.find over the documents of the collection.    *)
(* A filter is a record of the constrained paths; the identifier paths     *)
(* 'countryData.<key>' are named by their key.                             *)

IdPaths == {"nhsNumber", "mrn", "hospitalUidAadhaar", "ssn"}

\* one path of a filter against one document
PathMatches(doc, path, value) ==
    CASE path = "name" -> RegExpTest(value, doc.name)
      [] path = "age" -> doc.age = value
      [] path = "country" -> doc.country = value
      [] OTHER -> /\ Has(doc, "countryData")
                  /\ Has(doc.countryData, path)
                  /\ doc.countryData[path] = value

\* a filter is the conjunction of its paths; the empty filter matches every document
FilterMatches(doc, filter) ==
    \A path \in DOMAIN filter : PathMatches(doc, path, filter[path])

\* Patient.find(filter).lean()
Find(docs, filter) == SelectSeq(docs, LAMBDA doc : FilterMatches(doc, filter))

\* Patient.find({ $or: clauses }).lean()
FindOr(docs, clauses) ==
    SelectSeq(docs, LAMBDA doc :
        \E i \in 1..Len(clauses) : FilterMatches(doc, clauses[i]))

Delimiters == {" ", ".", "(", ")"}

\* the terms of a text: its maximal runs of non-delimiters, case folded
RECURSIVE TermsFrom(_, _, _)
TermsFrom(str, cur, acc) ==
    IF str = <<>> THEN (IF cur = <<>> THEN acc ELSE acc \cup {cur})
    ELSE IF Head(str) \in Delimiters
         THEN TermsFrom(Tail(str), <<>>, IF cur = <<>> THEN acc ELSE acc \cup {cur})
         ELSE TermsFrom(Tail(str), Append(cur, ToLower(Head(str))), acc)

Terms(str) == TermsFrom(str, <<>>, {})

Ids(docs) == {docs[i]._id : i \in 1..Len(docs)}

\* Patient.find({ $text: { $search }, country, _id: { $nin } }).lean(): the documents
\* of the text index (on name) sharing a term with the search string.  An undefined
\* country is sent as null, which no document of the collection carries.
\* (below: the same query without its $nin clause)
FindTextUnfiltered(docs, search, searchData, nin) ==
    SelectSeq(docs, LAMBDA doc :
        /\ Terms(search) \cap Terms(doc.name) # {}
        /\ Has(searchData, "country") /\ doc.country = searchData.country)

FindText(docs, search, searchData, nin) ==
    SelectSeq(docs, LAMBDA doc :
        /\ Terms(search) \cap Terms(doc.name) # {}
        /\ Has(searchData, "country") /\ doc.country = searchData.country
        /\ doc._id \notin nin)

-----------------------------------------------------------------------------
(* Candidate retriever and orchestrator                                    *)

Opt(cond, rec) == IF cond THEN rec ELSE <<>>

\* the $or clauses findDuplicates builds, in order
DuplicateQueries(extractedData) ==
    LET cd == IF Has(extractedData, "countryData") THEN extractedData.countryData ELSE <<>>
    IN  Opt(Truthy(cd, "nhsNumber"), <<[nhsNumber |-> cd.nhsNumber]>>)
        \o Opt(Truthy(cd, "mrn"), <<[mrn |-> cd.mrn]>>)
        \o Opt(Truthy(cd, "hospitalUidAadhaar"), <<[hospitalUidAadhaar |-> cd.hospitalUidAadhaar]>>)
        \o Opt(Truthy(cd, "ssn"), <<[ssn |-> cd.ssn]>>)
        \o Opt(/\ Truthy(extractedData, "name")
               /\ TruthyNum(extractedData, "age")
               /\ TruthyTag(extractedData, "country"),
               <<[name |-> extractedData.name, age |-> extractedData.age,
                  country |-> extractedData.country]>>)

\* findDuplicates throws when new RegExp(extractedData.name, 'i') does
DuplicatesThrows(extractedData) ==
    /\ Truthy(extractedData, "name")
    /\ TruthyNum(extractedData, "age")
    /\ TruthyTag(extractedData, "country")
    /\ ~RegExpValid(extractedData.name)

\* the queries issued without the early return on an empty clause list
DuplicateLogAlways(extractedData) ==
    <<[kind |-> "or", clauses |-> DuplicateQueries(extractedData)]>>

\* the store queries findDuplicates issues
DuplicateLog(extractedData) ==
    IF DuplicateQueries(extractedData) = <<>> THEN <<>>
    ELSE <<[kind |-> "or", clauses |-> DuplicateQueries(extractedData)]>>

findDuplicates(docs, extractedData) ==
    IF DuplicateQueries(extractedData) = <<>> THEN <<>>
    ELSE FindOr(docs, DuplicateQueries(extractedData))

NameOr(extractedData) == IF Has(extractedData, "name") THEN extractedData.name ELSE <<>>

\* the pass with the threshold met at 0.8 already
RECURSIVE SuggestionsAtLeast(_, _)
SuggestionsAtLeast(name, duplicatePatients) ==
    IF duplicatePatients = <<>> THEN <<>>
    ELSE LET duplicate == Head(duplicatePatients)
             confidence == calculateNameSimilarity(name, duplicate.name)
         IN  (IF ~RatGT(Rat(8, 10), confidence)
              THEN <<[field |-> "name", suggestedValue |-> duplicate.name,
                      confidence |-> confidence]>>
              ELSE <<>>)
             \o SuggestionsAtLeast(name, Tail(duplicatePatients))

\* the suggestions of analyzeDuplicates, one pass over duplicatePatients
RECURSIVE Suggestions(_, _)
Suggestions(name, duplicatePatients) ==
    IF duplicatePatients = <<>> THEN <<>>
    ELSE LET duplicate == Head(duplicatePatients)
             confidence == calculateNameSimilarity(name, duplicate.name)
         IN  (IF RatGT(confidence, Rat(8, 10))
              THEN <<[field |-> "name", suggestedValue |-> duplicate.name,
                      confidence |-> confidence]>>
              ELSE <<>>)
             \o Suggestions(name, Tail(duplicatePatients))

\* isDuplicate of the result (IsDuplicateFlagMore: the comparison off by one)
IsDuplicateFlagMore(duplicatePatients) == Len(duplicatePatients) > 1

IsDuplicateFlag(duplicatePatients) == Len(duplicatePatients) > 0

\* the analysis with validation run only when no duplicate was found
analyzeDuplicatesBlocking(docs, extractedData) ==
    LET duplicatePatients == findDuplicates(docs, extractedData)
    IN  [kind |-> "analysis",
         isDuplicate |-> IsDuplicateFlag(duplicatePatients),
         duplicatePatients |-> duplicatePatients,
         suggestions |-> Suggestions(NameOr(extractedData), duplicatePatients),
         validationErrors |-> IF duplicatePatients # <<>> THEN <<>>
                              ELSE validateCountrySpecificFields(extractedData)]

analyzeDuplicates(docs, extractedData) ==
    LET duplicatePatients == findDuplicates(docs, extractedData)
    IN  [kind |-> "analysis",
         isDuplicate |-> IsDuplicateFlag(duplicatePatients),
         duplicatePatients |-> duplicatePatients,
         suggestions |-> Suggestions(NameOr(extractedData), duplicatePatients),
         validationErrors |-> validateCountrySpecificFields(extractedData)]

\* exactQuery of findMatches
ExactQuery(searchData) ==
    LET cd == IF Has(searchData, "countryData") THEN searchData.countryData ELSE <<>>
    IN  Opt(Truthy(searchData, "name"), [name |-> searchData.name])
        @@ Opt(TruthyNum(searchData, "age"), [age |-> searchData.age])
        @@ Opt(TruthyTag(searchData, "country"), [country |-> searchData.country])
        @@ Opt(Truthy(cd, "nhsNumber"), [nhsNumber |-> cd.nhsNumber])
        @@ Opt(Truthy(cd, "mrn"), [mrn |-> cd.mrn])
        @@ Opt(Truthy(cd, "hospitalUidAadhaar"), [hospitalUidAadhaar |-> cd.hospitalUidAadhaar])

\* findMatches throws when new RegExp(searchData.name, 'i') does
MatchThrows(searchData) == Truthy(searchData, "name") /\ ~RegExpValid(searchData.name)

\* the candidates kept: those scoring above 0.5, in the order returned
RECURSIVE Scored(_, _)
Scored(searchData, textSearchResults) ==
    IF textSearchResults = <<>> THEN <<>>
    ELSE LET matchScore == calculateOverallMatchScore(searchData, Head(textSearchResults))
         IN  (IF RatGT(matchScore, Rat(5, 10))
              THEN <<[patient |-> Head(textSearchResults), matchScore |-> matchScore]>>
              ELSE <<>>)
             \o Scored(searchData, Tail(textSearchResults))

\* Array.prototype.sort((a, b) => b.matchScore - a.matchScore): stable, so an entry
\* goes behind every entry whose score is not smaller
RECURSIVE InsertByScore(_, _)
InsertByScore(sorted, entry) ==
    IF sorted = <<>> THEN <<entry>>
    ELSE IF RatGT(entry.matchScore, Head(sorted).matchScore)
         THEN <<entry>> \o sorted
         ELSE <<Head(sorted)>> \o InsertByScore(Tail(sorted), entry)

\* the comparator turned round: (a, b) => a.matchScore - b.matchScore
RECURSIVE InsertByScoreAscending(_, _)
InsertByScoreAscending(sorted, entry) ==
    IF sorted = <<>> THEN <<entry>>
    ELSE IF RatGT(Head(sorted).matchScore, entry.matchScore)
         THEN <<entry>> \o sorted
         ELSE <<Head(sorted)>> \o InsertByScoreAscending(Tail(sorted), entry)

RECURSIVE SortByScoreAscending(_)
SortByScoreAscending(entries) ==
    IF entries = <<>> THEN <<>>
    ELSE InsertByScoreAscending(SortByScoreAscending(SubSeq(entries, 1, Len(entries) - 1)),
                                entries[Len(entries)])

RECURSIVE SortByScore(_)
SortByScore(entries) ==
    IF entries = <<>> THEN <<>>
    ELSE InsertByScore(SortByScore(SubSeq(entries, 1, Len(entries) - 1)),
                       entries[Len(entries)])

-----------------------------------------------------------------------------
(* Inputs                                                                  *)

\* the most documents the collection holds in a run
MaxStore == 2

Countries == {"UK", "US", "India", "Japan"}

jo == <<"j", "o">>
Jo == <<"J", "o">>
joK == <<"j", "o", " ", "k">>
joKo == <<"j", "o", " ", "k", "o">>
jParen == <<"j", "(", "o", ")">>
openParen == <<"(">>

NHS1 == <<"1", "2", "3", "4", "5", "6", "7", "8", "9", "0">>
MRN1 == <<"M", "1">>
SSN1 == <<"1", "2", "3", "-", "4", "5", "-", "6", "7", "8", "9">>
UID1 == <<"A", "1">>
HPID1 == <<"P", "1">>

\* the bodies posted to /save
SaveInputs ==
    {[name |-> n, age |-> 30, country |-> "UK", countryData |-> [nhsNumber |-> NHS1]] :
        n \in {jo, joK, jParen}}
    \cup {[name |-> jo, age |-> 31, country |-> "UK", countryData |-> [nhsNumber |-> NHS1]],
          [name |-> jo, age |-> 30, country |-> "US",
           countryData |-> [mrn |-> MRN1, ssn |-> SSN1]],
          [name |-> jo, age |-> 30, country |-> "India",
           countryData |-> [hospitalUidAadhaar |-> UID1]],
          [name |-> jo, age |-> 30, country |-> "Japan",
           countryData |-> [hospitalPatientID |-> HPID1]],
          [name |-> jo, country |-> "UK", countryData |-> [nhsNumber |-> NHS1]]}

QueryNames == {jo, Jo, joK, joKo, jParen, openParen}

QueryAges == {0, 30, 31}

\* country and countryData of a submitted record
QueryCountryParts ==
    {<<>>, [countryData |-> <<>>], [countryData |-> [nhsNumber |-> NHS1]]}
    \cup {[country |-> "UK"] @@ cd :
            cd \in {<<>>, [countryData |-> <<>>], [countryData |-> [nhsNumber |-> NHS1]],
                    [countryData |-> [nhsNumber |-> <<>>]]}}
    \cup {[country |-> "US", countryData |-> [mrn |-> MRN1]],
          [country |-> "US", countryData |-> [ssn |-> SSN1]],
          [country |-> "India", countryData |-> [hospitalUidAadhaar |-> UID1]],
          [country |-> "Japan"],
          [country |-> "Japan", countryData |-> [hospitalPatientID |-> HPID1]]}

\* the partial records given to analyzeDuplicates and posted to /match
QueryRecords ==
    {n @@ a @@ c :
        n \in {<<>>} \cup {[name |-> x] : x \in QueryNames},
        a \in {<<>>} \cup {[age |-> x] : x \in QueryAges},
        c \in QueryCountryParts}

-----------------------------------------------------------------------------
(* The handlers                                                            *)

NoResult == [kind |-> "none"]

\* the page before a submission is detected: no dialog, nothing handled
NoSubmission ==
    [phase |-> "idle", shown |-> {}, saved |-> FALSE, data |-> <<>>, analysis |-> NoResult]

CallIds == {1, 2}

\* a call that has not been made
NoCall == [pc |-> "idle", op |-> "none", req |-> <<>>, exactMatches |-> <<>>,
           result |-> NoResult]

NoCalls == [c \in CallIds |-> NoCall]

\* the background script before an extraction arrives
NoExtraction ==
    [phase |-> "idle", data |-> <<>>, analysis |-> NoResult, saves |-> 0,
     sent |-> <<>>, confirmed |-> FALSE]

TabIds == {1, 2}

\* a tab before its form is submitted
NoFlow == [phase |-> "idle", data |-> <<>>, analysis |-> NoResult,
           saved |-> FALSE, confirmed |-> FALSE]

NoFlows == [t \in TabIds |-> NoFlow]

Init ==
    /\ store = <<>>
    /\ pc = "idle"
    /\ req = <<>>
    /\ exactMatches = <<>>
    /\ queries = <<>>
    /\ result = NoResult
    /\ failed = "none"
    /\ ext = NoSubmission
    /\ calls = NoCalls
    /\ bg = NoExtraction
    /\ flows = NoFlows

\* the validators of the Patient schema
SchemaValid(data) ==
    /\ Has(data, "name") /\ Trim(data.name) # <<>>
    /\ Has(data, "age") /\ data.age >= 1 /\ data.age <= 120
    /\ Has(data, "country") /\ data.country \in Countries
    /\ Has(data, "countryData") /\ Truthy(data.countryData, "nhsNumber")
         => IsNhsNumber(data.countryData.nhsNumber)
    /\ Has(data, "countryData") /\ Truthy(data.countryData, "ssn")
         => IsSsn(data.countryData.ssn)

\* the document patient.save() inserts
StoredDoc(data, id) ==
    [_id |-> id, name |-> Trim(data.name), age |-> data.age, country |-> data.country]
    @@ Opt(Has(data, "countryData") /\ data.countryData # <<>>,
           [countryData |-> data.countryData])

\* POST /save: inserts the document when the schema accepts it
Save(data) ==
    /\ result.kind \in {"none", "pending"}
    /\ Len(store) < MaxStore
    /\ SchemaValid(data)
    /\ store' = Append(store, StoredDoc(data, Len(store) + 1))
    /\ UNCHANGED <<pc, req, exactMatches, queries, result, failed, ext, calls, bg, flows>>

\* the call with a find-or-create in place of the lookup
AnalyzeDuplicatesInserting(extractedData) ==
    /\ pc = "idle"
    /\ result.kind = "none"
    /\ ~DuplicatesThrows(extractedData)
    /\ req' = extractedData
    /\ queries' = DuplicateLog(extractedData)
    /\ result' = analyzeDuplicates(store, extractedData)
    /\ store' = IF findDuplicates(store, extractedData) = <<>> /\ SchemaValid(extractedData)
                   /\ Len(store) < MaxStore
                THEN Append(store, StoredDoc(extractedData, Len(store) + 1))
                ELSE store
    /\ UNCHANGED <<pc, exactMatches, failed, ext, calls, bg, flows>>

\* a call of DuplicateChecker.analyzeDuplicates
AnalyzeDuplicates(extractedData) ==
    /\ pc = "idle"
    /\ result.kind = "none"
    /\ req' = extractedData
    /\ IF DuplicatesThrows(extractedData)
       THEN /\ queries' = <<>>
            /\ result' = [kind |-> "error", op |-> "analyzeDuplicates"]
       ELSE /\ queries' = DuplicateLog(extractedData)
            /\ result' = analyzeDuplicates(store, extractedData)
    /\ UNCHANGED <<store, pc, exactMatches, failed, ext, calls, bg, flows>>

\* the guard of POST /match
MatchRejects(searchData) == ~Truthy(searchData, "name") /\ ~Has(searchData, "countryData")

\* POST /match up to the await of findMatches' exact query; a search without a
\* name issues no second query and returns here
PostMatch(searchData) ==
    /\ pc = "idle"
    /\ result.kind = "none"
    /\ req' = searchData
    /\ UNCHANGED <<store, failed, ext, calls, bg, flows>>
    /\ IF MatchRejects(searchData)
       THEN /\ queries' = <<>>
            /\ result' = [kind |-> "invalid"]
            /\ UNCHANGED <<pc, exactMatches>>
       ELSE IF MatchThrows(searchData)
       THEN /\ queries' = <<>>
            /\ result' = [kind |-> "error", op |-> "findMatches"]
            /\ UNCHANGED <<pc, exactMatches>>
       ELSE LET exactResults == Find(store, ExactQuery(searchData)) IN
            /\ queries' = <<[kind |-> "find", filter |-> ExactQuery(searchData)]>>
            /\ IF Truthy(searchData, "name")
               THEN /\ pc' = "broad"
                    /\ exactMatches' = exactResults
                    /\ result' = [kind |-> "pending"]
               ELSE /\ result' = [kind |-> "match", exactMatches |-> exactResults,
                                  partialMatches |-> <<>>]
                    /\ UNCHANGED <<pc, exactMatches>>

\* (below: the text query without its country clause)
FindMatchesBroadAnyCountry ==
    /\ pc = "broad"
    /\ LET nin == Ids(exactMatches)
           textSearchResults ==
               SelectSeq(store, LAMBDA doc : /\ Terms(req.name) \cap Terms(doc.name) # {}
                                             /\ doc._id \notin nin)
       IN  /\ queries' = Append(queries, [kind |-> "text", search |-> req.name, nin |-> nin])
           /\ result' = [kind |-> "match", exactMatches |-> exactMatches,
                         partialMatches |-> SortByScore(Scored(req, textSearchResults))]
    /\ pc' = "idle"
    /\ exactMatches' = <<>>
    /\ UNCHANGED <<store, req, failed, ext, calls, bg, flows>>

\* findMatches from its text query to its return
FindMatchesBroad ==
    /\ pc = "broad"
    /\ LET nin == Ids(exactMatches)
           textSearchResults == FindText(store, req.name, req, nin)
       IN  /\ queries' = Append(queries, [kind |-> "text", search |-> req.name, nin |-> nin])
           /\ result' = [kind |-> "match", exactMatches |-> exactMatches,
                         partialMatches |-> SortByScore(Scored(req, textSearchResults))]
    /\ pc' = "idle"
    /\ exactMatches' = <<>>
    /\ UNCHANGED <<store, req, failed, ext, calls, bg, flows>>

\* the caller takes the response
Return ==
    /\ result.kind \notin {"none", "pending"}
    /\ result' = NoResult
    /\ req' = <<>>
    /\ queries' = <<>>
    /\ failed' = "none"
    /\ UNCHANGED <<store, pc, exactMatches, ext, calls, bg, flows>>

Next ==
    \/ \E data \in SaveInputs : Save(data)
    \/ \E extractedData \in QueryRecords : AnalyzeDuplicates(extractedData)
    \/ \E searchData \in QueryRecords : PostMatch(searchData)
    \/ FindMatchesBroad
    \/ Return

Spec == Init /\ [][Next]_vars

-----------------------------------------------------------------------------
(* The content script (GoogleFormsHandler) and the routes it posts to      *)

\* the records the form extractor returns on a submission; extractFormData
\* always sets country from the form format
ExtractedInputs ==
    {[name |-> jo, age |-> 30, country |-> "UK", countryData |-> [nhsNumber |-> NHS1]],
     [name |-> jo, age |-> 30, country |-> "UK", countryData |-> <<>>],
     [name |-> jo, age |-> 31, country |-> "UK", countryData |-> <<>>],
     [country |-> "UK", countryData |-> [nhsNumber |-> NHS1]],
     [name |-> openParen, age |-> 30, country |-> "UK",
      countryData |-> [nhsNumber |-> NHS1]],
     [name |-> Jo, age |-> 30, country |-> "Japan"]}

\* apiClient.analyzeExtraction: POST /analyze with country taken from the record
analyzeExtraction(docs, extractedData) ==
    LET patientData == extractedData @@ [country |-> extractedData.country] IN
    IF ~TruthyTag(extractedData, "country") \/ DuplicatesThrows(patientData)
    THEN [success |-> FALSE]
    ELSE [success |-> TRUE, data |-> analyzeDuplicates(docs, patientData)]

\* the collection after POST /save: the schema's rejection leaves it as it was
saveExtractedData(docs, extractedData) ==
    IF SchemaValid(extractedData)
    THEN Append(docs, StoredDoc(extractedData, Len(docs) + 1))
    ELSE docs

\* saveDataDirectly: the message shown after POST /save
saveDataDirectly(e, extractedData) ==
    IF SchemaValid(extractedData)
    THEN [e EXCEPT !.shown = @ \cup {"success"}, !.saved = TRUE]
    ELSE [e EXCEPT !.shown = @ \cup {"error"}]

\* (below: the branches with the validation errors ignored)
handleDuplicateAnalysisSkippingErrors(analysis) ==
    IF analysis.isDuplicate /\ Len(analysis.duplicatePatients) > 0 THEN "dialog"
    ELSE "save"

\* handleDuplicateAnalysis: the branch taken for an analysis
handleDuplicateAnalysis(analysis) ==
    IF analysis.isDuplicate /\ Len(analysis.duplicatePatients) > 0 THEN "dialog"
    ELSE IF Len(analysis.validationErrors) > 0 THEN "validation"
    ELSE "save"

\* what extractFormData returns: the extracted data, or a failure
ExtractionResults ==
    {[success |-> TRUE, data |-> data] : data \in ExtractedInputs} \cup {[success |-> FALSE]}

\* handleFormSubmission, from the detected submission to the dialog it opens or
\* the save it makes; a failed extraction shows its error and returns
HandleFormSubmission(extractionResult) ==
    /\ ext.phase # "dialog"
    /\ IF ~extractionResult.success
       THEN /\ ext' = [NoSubmission EXCEPT !.phase = "done", !.shown = {"extractionError"}]
            /\ UNCHANGED store
       ELSE LET extractedData == extractionResult.data
                analysisResponse == analyzeExtraction(store, extractedData)
                branch == IF analysisResponse.success
                          THEN handleDuplicateAnalysis(analysisResponse.data)
                          ELSE "save"
                handled == [phase |-> "done", shown |-> {}, saved |-> FALSE,
                            data |-> extractedData,
                            analysis |-> IF analysisResponse.success
                                         THEN analysisResponse.data
                                         ELSE [kind |-> "failed"]]
            IN  /\ branch = "save" /\ SchemaValid(extractedData) => Len(store) < MaxStore
                /\ ext' = CASE branch = "dialog" ->
                                 [handled EXCEPT !.phase = "dialog", !.shown = {"duplicates"}]
                            [] branch = "validation" ->
                                 [handled EXCEPT !.shown = {"validation"}]
                            [] OTHER -> saveDataDirectly(handled, extractedData)
                /\ store' = IF branch = "save"
                            THEN saveExtractedData(store, extractedData) ELSE store
    /\ UNCHANGED <<pc, req, exactMatches, queries, result, failed, calls, bg, flows>>

\* the click on "Save Anyway" in the duplicate dialog
ClickSaveAnyway ==
    /\ ext.phase = "dialog"
    /\ SchemaValid(ext.data) => Len(store) < MaxStore
    /\ ext' = saveDataDirectly([ext EXCEPT !.phase = "done"], ext.data)
    /\ store' = saveExtractedData(store, ext.data)
    /\ UNCHANGED <<pc, req, exactMatches, queries, result, failed, calls, bg, flows>>

\* the click on "Cancel" in the duplicate dialog
ClickCancel ==
    /\ ext.phase = "dialog"
    /\ ext' = [ext EXCEPT !.phase = "done"]
    /\ UNCHANGED <<store, pc, req, exactMatches, queries, result, failed, calls, bg, flows>>

NextContent ==
    \/ \E data \in SaveInputs : Save(data)
    \/ \E extractionResult \in ExtractionResults : HandleFormSubmission(extractionResult)
    \/ ClickSaveAnyway
    \/ ClickCancel

SpecContent == Init /\ [][NextContent]_vars

-----------------------------------------------------------------------------
(* The background script's extraction flow.  bg is one extraction: its     *)
(* phase, the extracted data, the analysis response, the number of save    *)
(* requests the background script issued for it, the messages it sent to   *)
(* the form tab, and whether the user confirmed the duplicate.             *)

\* handleExtractNow: the tab sends the extracted data to the background script
HandleExtractNow(data) ==
    /\ bg.phase \in {"idle", "done", "cancelled"}
    /\ bg' = [NoExtraction EXCEPT !.phase = "extracted", !.data = data]
    /\ UNCHANGED <<store, pc, req, exactMatches, queries, result, failed, ext, calls, flows>>

\* the analysis reports duplicates
DuplicatesFound(analysisResponse) ==
    /\ analysisResponse.success
    /\ analysisResponse.data.isDuplicate
    /\ Len(analysisResponse.data.duplicatePatients) > 0

\* saveExtractedDataToBackend: the save request and the message to the tab, which
\* is sent when the tab query found the form tab
saveExtractedDataToBackend(b, tabFound) ==
    [b EXCEPT !.phase = "done",
              !.saves = @ + 1,
              !.sent = IF ~tabFound THEN @
                       ELSE IF SchemaValid(b.data) THEN Append(@, "extractionSaved")
                       ELSE Append(@, "extractionSaveFailed")]

\* (below: the handler going on to the save after it reported the duplicates)
HandleExtractedDataSaving(tabFound) ==
    /\ bg.phase = "extracted"
    /\ SchemaValid(bg.data) => Len(store) < MaxStore
    /\ LET analysisResponse == analyzeExtraction(store, bg.data)
           analyzed == [bg EXCEPT !.analysis = analysisResponse]
       IN  bg' = saveExtractedDataToBackend(
                     IF DuplicatesFound(analysisResponse) /\ tabFound
                     THEN [analyzed EXCEPT !.sent = Append(@, "duplicatesFound")]
                     ELSE analyzed, tabFound)
    /\ store' = saveExtractedData(store, bg.data)
    /\ UNCHANGED <<pc, req, exactMatches, queries, result, failed, ext, calls, flows>>

\* handleExtractedData.  With duplicates it sends duplicatesFound to the form tab
\* and returns.  Otherwise, and when the analysis failed, it evaluates
\* this.saveExtractedDataToBackend: the script is a module, so this is undefined
\* in the function, the expression throws before any request is made, and the
\* handler's catch logs the error.
HandleExtractedData(tabFound) ==
    /\ bg.phase = "extracted"
    /\ LET analysisResponse == analyzeExtraction(store, bg.data)
           analyzed == [bg EXCEPT !.analysis = analysisResponse]
       IN  bg' = IF DuplicatesFound(analysisResponse)
                 THEN IF tabFound
                      THEN [analyzed EXCEPT !.phase = "dialog",
                                            !.sent = Append(@, "duplicatesFound")]
                      ELSE [analyzed EXCEPT !.phase = "done"]
                 ELSE [analyzed EXCEPT !.phase = "done"]
    /\ UNCHANGED <<store, pc, req, exactMatches, queries, result, failed, ext, calls, flows>>

\* the click on "Save Anyway" in the tab's confirmation dialog: the tab sends
\* confirmSaveDuplicate
SaveAnyway ==
    /\ bg.phase = "dialog"
    /\ bg' = [bg EXCEPT !.phase = "confirmed", !.confirmed = TRUE]
    /\ UNCHANGED <<store, pc, req, exactMatches, queries, result, failed, ext, calls, flows>>

\* the click on "Cancel" in the tab's confirmation dialog: no message is sent
CancelSave ==
    /\ bg.phase = "dialog"
    /\ bg' = [bg EXCEPT !.phase = "cancelled"]
    /\ UNCHANGED <<store, pc, req, exactMatches, queries, result, failed, ext, calls, flows>>

\* handleConfirmSaveDuplicate
HandleConfirmSaveDuplicate(tabFound) ==
    /\ bg.phase = "confirmed"
    /\ SchemaValid(bg.data) => Len(store) < MaxStore
    /\ bg' = saveExtractedDataToBackend(bg, tabFound)
    /\ store' = saveExtractedData(store, bg.data)
    /\ UNCHANGED <<pc, req, exactMatches, queries, result, failed, ext, calls, flows>>

NextBackground ==
    \/ \E data \in SaveInputs : Save(data)
    \/ \E data \in ExtractedInputs : HandleExtractNow(data)
    \/ \E tabFound \in BOOLEAN : HandleExtractedData(tabFound)
    \/ SaveAnyway
    \/ CancelSave
    \/ \E tabFound \in BOOLEAN : HandleConfirmSaveDuplicate(tabFound)

SpecBackground == Init /\ [][NextBackground]_vars

-----------------------------------------------------------------------------
(* Two form tabs submitting at the same time.  flows[t] is the submission  *)
(* of tab t; handleFormSubmission is taken in two steps, up to the         *)
(* response of POST /analyze it awaits, and from there on.                 *)

RaceInputs ==
    {[name |-> jo, age |-> 30, country |-> "UK", countryData |-> [nhsNumber |-> NHS1]],
     [name |-> joK, age |-> 31, country |-> "UK", countryData |-> [nhsNumber |-> NHS1]],
     [name |-> jo, age |-> 30, country |-> "UK", countryData |-> <<>>],
     [name |-> jo, age |-> 30, country |-> "US",
      countryData |-> [mrn |-> MRN1, ssn |-> SSN1]]}

\* handleFormSubmission of tab t up to the analysis response
SubmissionAnalyze(t, extractedData) ==
    /\ flows[t].phase = "idle"
    /\ flows' = [flows EXCEPT ![t] = [NoFlow EXCEPT !.phase = "analyzed",
                                                    !.data = extractedData,
                                                    !.analysis = analyzeExtraction(store, extractedData)]]
    /\ UNCHANGED <<store, pc, req, exactMatches, queries, result, failed, ext, calls, bg>>

\* handleFormSubmission of tab t from the analysis response: the dialog, the
\* validation errors, or the save
SubmissionHandle(t) ==
    /\ flows[t].phase = "analyzed"
    /\ LET f == flows[t]
           branch == IF f.analysis.success THEN handleDuplicateAnalysis(f.analysis.data)
                     ELSE "save"
       IN  /\ branch = "save" /\ SchemaValid(f.data) => Len(store) < MaxStore
           /\ flows' = [flows EXCEPT ![t] =
                          CASE branch = "dialog" -> [f EXCEPT !.phase = "dialog"]
                            [] branch = "validation" -> [f EXCEPT !.phase = "done"]
                            [] OTHER -> [f EXCEPT !.phase = "done",
                                                  !.saved = SchemaValid(f.data)]]
           /\ store' = IF branch = "save" THEN saveExtractedData(store, f.data) ELSE store
    /\ UNCHANGED <<pc, req, exactMatches, queries, result, failed, ext, calls, bg>>

\* the click on "Save Anyway" in the duplicate dialog of tab t
SubmissionSaveAnyway(t) ==
    /\ flows[t].phase = "dialog"
    /\ SchemaValid(flows[t].data) => Len(store) < MaxStore
    /\ flows' = [flows EXCEPT ![t] = [flows[t] EXCEPT !.phase = "done", !.confirmed = TRUE,
                                                      !.saved = SchemaValid(flows[t].data)]]
    /\ store' = saveExtractedData(store, flows[t].data)
    /\ UNCHANGED <<pc, req, exactMatches, queries, result, failed, ext, calls, bg>>

\* the click on "Cancel" in the duplicate dialog of tab t
SubmissionCancel(t) ==
    /\ flows[t].phase = "dialog"
    /\ flows' = [flows EXCEPT ![t] = [flows[t] EXCEPT !.phase = "done"]]
    /\ UNCHANGED <<store, pc, req, exactMatches, queries, result, failed, ext, calls, bg>>

NextRace ==
    \/ \E t \in TabIds, extractedData \in RaceInputs : SubmissionAnalyze(t, extractedData)
    \/ \E t \in TabIds : SubmissionHandle(t)
    \/ \E t \in TabIds : SubmissionSaveAnyway(t)
    \/ \E t \in TabIds : SubmissionCancel(t)

SpecRace == Init /\ [][NextRace]_vars

-----------------------------------------------------------------------------
(* validateCountrySpecificFields on its own                                *)

BadNhs == <<"1", "2", "3">>
BadSsn == <<"1", "2", "3", "4">>

\* the identifier maps of a record of the given country
ValidateCountryData(country) ==
    {<<>>, [countryData |-> <<>>],
     [countryData |-> (RequiredKey(country) :> HPID1)],
     [countryData |-> (RequiredKey(country) :> NHS1)]}
    \cup (IF country = "UK" THEN {[countryData |-> [nhsNumber |-> BadNhs]]} ELSE {})
    \cup (IF country = "US"
          THEN {[countryData |-> [mrn |-> MRN1, ssn |-> SSN1]],
                [countryData |-> [mrn |-> MRN1, ssn |-> BadSsn]],
                [countryData |-> [ssn |-> BadSsn]]}
          ELSE {})

\* the records given to the validator
ValidateInputs ==
    UNION {{n @@ a @@ [country |-> c] @@ cd :
                n \in {<<>>, [name |-> <<>>], [name |-> jo]},
                a \in {<<>>, [age |-> 0], [age |-> 30]},
                cd \in ValidateCountryData(c)} : c \in Countries}

\* one run of the validation step of analyzeDuplicates on a fresh error list
Validate(data) ==
    /\ req' = data
    /\ result' = [kind |-> "validation",
                  validationErrors |-> validateCountrySpecificFields(data)]
    /\ UNCHANGED <<store, pc, exactMatches, queries, failed, ext, calls, bg, flows>>

NextValidate == \E data \in ValidateInputs : Validate(data)

SpecValidate == Init /\ [][NextValidate]_vars

-----------------------------------------------------------------------------
(* calculateNameSimilarity on its own                                      *)

MaxNameLen == 3

NameAlphabet == {"j", "J", " "}

kitten == <<"k", "i", "t", "t", "e", "n">>
sitting == <<"s", "i", "t", "t", "i", "n", "g">>

jWideO == <<"j", " ", " ", "o">>
jNarrowO == <<"j", " ", "o">>

\* every string over the alphabet of at most MaxNameLen characters, and the longer
\* names of the queries
NameInputs ==
    UNION {[1..n -> NameAlphabet] : n \in 0..MaxNameLen}
    \cup QueryNames \cup {jWideO, jNarrowO, kitten, sitting}

\* two calls of calculateNameSimilarity, the second with the arguments exchanged
NameSimilarity ==
    /\ result.kind = "none"
    /\ \E name1, name2 \in NameInputs :
        /\ req' = [name1 |-> name1, name2 |-> name2]
        /\ result' = [kind |-> "similarity",
                      value |-> calculateNameSimilarity(name1, name2),
                      reverse |-> calculateNameSimilarity(name2, name1)]
    /\ UNCHANGED <<store, pc, exactMatches, queries, failed, ext, calls, bg, flows>>

NextSimilarity ==
    \/ NameSimilarity
    \/ Return

SpecSimilarity == Init /\ [][NextSimilarity]_vars

-----------------------------------------------------------------------------
(* calculateOverallMatchScore on its own                                   *)

\* the documents a text query can return: what /save has stored
ScoreCandidates == {StoredDoc(data, 1) : data \in {x \in SaveInputs : SchemaValid(x)}}

\* the search records, and some whose age is far from every stored age
ScoreQueries ==
    QueryRecords
    \cup {[name |-> n, age |-> a, country |-> c] :
            n \in {jo, joKo}, a \in {19, 20, 21, 41, 90}, c \in {"UK", "Japan"}}
    \cup {n @@ [countryData |-> cd] :
            n \in {<<>>, [name |-> jo, age |-> 30, country |-> "Japan"]},
            cd \in {[mrn |-> MRN1, ssn |-> BadSsn], [mrn |-> UID1, ssn |-> BadSsn],
                    [hospitalPatientID |-> HPID1], [hospitalPatientID |-> UID1]}}

\* one call of calculateOverallMatchScore
OverallMatchScore ==
    /\ result.kind = "none"
    /\ \E searchData \in ScoreQueries, patient \in ScoreCandidates :
        /\ req' = [searchData |-> searchData, patient |-> patient]
        /\ result' = [kind |-> "score",
                      value |-> calculateOverallMatchScore(searchData, patient)]
    /\ UNCHANGED <<store, pc, exactMatches, queries, failed, ext, calls, bg, flows>>

NextScore ==
    \/ OverallMatchScore
    \/ Return

SpecScore == Init /\ [][NextScore]_vars

-----------------------------------------------------------------------------
(* The engine over a store whose queries can be rejected (an error or a    *)
(* timeout of Patient.find).  Neither DuplicateChecker nor the model       *)
(* function it calls catches: the rejection reaches the catch of the route.*)

\* analyzeDuplicates when the query of findDuplicates is rejected
analyzeDuplicatesRejected(extractedData) == [kind |-> "error", op |-> "analyzeDuplicates"]

\* findMatches when one of its queries is rejected, the text query as if it had
\* found nothing
findMatchesRejectedAsPartial(searchData, exactResults) ==
    [kind |-> "match", exactMatches |-> exactResults, partialMatches |-> <<>>]

\* findMatches when one of its queries is rejected; exactResults is what the exact
\* query had returned before
findMatchesRejected(searchData, exactResults) == [kind |-> "error", op |-> "findMatches"]

\* POST /analyze with the $or query rejected
AnalyzeDuplicatesFails(extractedData) ==
    /\ pc = "idle"
    /\ result.kind = "none"
    /\ ~DuplicatesThrows(extractedData)
    /\ DuplicateLog(extractedData) # <<>>
    /\ req' = extractedData
    /\ queries' = DuplicateLog(extractedData)
    /\ failed' = "duplicates"
    /\ result' = analyzeDuplicatesRejected(extractedData)
    /\ UNCHANGED <<store, pc, exactMatches, ext, calls, bg, flows>>

\* POST /match with the exact query rejected
PostMatchFails(searchData) ==
    /\ pc = "idle"
    /\ result.kind = "none"
    /\ ~MatchRejects(searchData)
    /\ ~MatchThrows(searchData)
    /\ req' = searchData
    /\ queries' = <<[kind |-> "find", filter |-> ExactQuery(searchData)]>>
    /\ failed' = "exact"
    /\ result' = findMatchesRejected(searchData, <<>>)
    /\ UNCHANGED <<store, pc, exactMatches, ext, calls, bg, flows>>

\* findMatches with the text query rejected after the exact query succeeded
FindMatchesBroadFails ==
    /\ pc = "broad"
    /\ queries' = Append(queries, [kind |-> "text", search |-> req.name,
                                   nin |-> Ids(exactMatches)])
    /\ failed' = "text"
    /\ result' = findMatchesRejected(req, exactMatches)
    /\ pc' = "idle"
    /\ exactMatches' = <<>>
    /\ UNCHANGED <<store, req, ext, calls, bg, flows>>

\* the records submitted while the store is unreliable
OutageRecords ==
    {r \in QueryRecords :
        /\ Has(r, "name") => r.name \in {jo, openParen}
        /\ Has(r, "age") => r.age = 30}

NextOutage ==
    \/ \E data \in SaveInputs : Save(data)
    \/ \E extractedData \in OutageRecords : AnalyzeDuplicates(extractedData)
    \/ \E extractedData \in OutageRecords : AnalyzeDuplicatesFails(extractedData)
    \/ \E searchData \in OutageRecords : PostMatch(searchData)
    \/ \E searchData \in OutageRecords : PostMatchFails(searchData)
    \/ FindMatchesBroad
    \/ FindMatchesBroadFails
    \/ Return

SpecOutage == Init /\ [][NextOutage]_vars

-----------------------------------------------------------------------------
(* Engine calls in flight at the same time.  DuplicateChecker has static   *)
(* methods and no fields: what a call keeps between its awaits are its     *)
(* parameters and locals.                                                  *)

\* the records of the calls made at the same time
ConcurrentRecords ==
    {[name |-> jo, age |-> 30, country |-> "UK", countryData |-> [nhsNumber |-> NHS1]],
     [name |-> joK, age |-> 30, country |-> "UK", countryData |-> [nhsNumber |-> NHS1]],
     [name |-> jo, country |-> "UK"],
     [country |-> "UK", countryData |-> [nhsNumber |-> NHS1]],
     [name |-> openParen, age |-> 30, country |-> "UK"]}

\* no call is in flight or waits to be taken
Quiet == \A c \in CallIds : calls[c].pc = "idle"

\* the exactMatches of every call kept in one place, the first call's
ExactMatchesShared(cs, c) == cs[1].exactMatches

\* the local exactMatches of call c of findMatches
ExactMatchesOf(cs, c) == cs[c].exactMatches

\* call c: POST /analyze's analyzeDuplicates, with its single query
CallAnalyzeDuplicates(c, extractedData) ==
    /\ calls[c].pc = "idle"
    /\ calls' = [calls EXCEPT ![c] =
                    [pc |-> "done", op |-> "analyzeDuplicates", req |-> extractedData,
                     exactMatches |-> <<>>,
                     result |-> IF DuplicatesThrows(extractedData)
                                THEN [kind |-> "error", op |-> "analyzeDuplicates"]
                                ELSE analyzeDuplicates(store, extractedData)]]
    /\ UNCHANGED <<store, pc, req, exactMatches, queries, result, failed, ext, bg, flows>>

\* call c: POST /match up to the await of findMatches' exact query
CallFindMatches(c, searchData) ==
    /\ calls[c].pc = "idle"
    /\ LET exactResults == Find(store, ExactQuery(searchData))
           call == [NoCall EXCEPT !.op = "findMatches", !.req = searchData]
       IN  calls' = [calls EXCEPT ![c] =
              IF MatchRejects(searchData)
              THEN [call EXCEPT !.pc = "done", !.result = [kind |-> "invalid"]]
              ELSE IF MatchThrows(searchData)
              THEN [call EXCEPT !.pc = "done",
                                !.result = [kind |-> "error", op |-> "findMatches"]]
              ELSE IF Truthy(searchData, "name")
              THEN [call EXCEPT !.pc = "broad", !.exactMatches = exactResults,
                                !.result = [kind |-> "pending"]]
              ELSE [call EXCEPT !.pc = "done",
                                !.result = [kind |-> "match", exactMatches |-> exactResults,
                                            partialMatches |-> <<>>]]]
    /\ UNCHANGED <<store, pc, req, exactMatches, queries, result, failed, ext, bg, flows>>

\* call c of findMatches from its text query to its return
CallFindMatchesBroad(c) ==
    /\ calls[c].pc = "broad"
    /\ LET searchData == calls[c].req
           exact == ExactMatchesOf(calls, c)
           textSearchResults == FindText(store, searchData.name, searchData, Ids(exact))
       IN  calls' = [calls EXCEPT ![c] =
              [@ EXCEPT !.pc = "done", !.exactMatches = <<>>,
                        !.result = [kind |-> "match", exactMatches |-> exact,
                                    partialMatches |->
                                        SortByScore(Scored(searchData, textSearchResults))]]]
    /\ UNCHANGED <<store, pc, req, exactMatches, queries, result, failed, ext, bg, flows>>

\* the caller of call c takes its response
CallReturn(c) ==
    /\ calls[c].pc = "done"
    /\ calls' = [calls EXCEPT ![c] = NoCall]
    /\ UNCHANGED <<store, pc, req, exactMatches, queries, result, failed, ext, bg, flows>>

NextConcurrent ==
    \/ Quiet /\ \E data \in SaveInputs : Save(data)
    \/ \E c \in CallIds, r \in ConcurrentRecords : CallAnalyzeDuplicates(c, r)
    \/ \E c \in CallIds, r \in ConcurrentRecords : CallFindMatches(c, r)
    \/ \E c \in CallIds : CallFindMatchesBroad(c)
    \/ \E c \in CallIds : CallReturn(c)

SpecConcurrent == Init /\ [][NextConcurrent]_vars

-----------------------------------------------------------------------------
(* Properties                                                              *)

Analyzed == result.kind = "analysis"

\* a call of analyzeDuplicates has ended, by a return or by a throw
AnalyzeEnded ==
    \/ result.kind = "analysis"
    \/ result.kind = "error" /\ result.op = "analyzeDuplicates"

Matched == result.kind = "match"

\* a request to /match has ended
MatchEnded ==
    \/ result.kind \in {"match", "invalid"}
    \/ result.kind = "error" /\ result.op = "findMatches"

Elems(seq) == {seq[i] : i \in 1..Len(seq)}

CountryDataOf(rec) == IF Has(rec, "countryData") THEN rec.countryData ELSE <<>>

\* both records carry the identifier key with the same non-empty value
SharesId(a, b, key) ==
    /\ Truthy(CountryDataOf(a), key)
    /\ Truthy(CountryDataOf(b), key)
    /\ CountryDataOf(a)[key] = CountryDataOf(b)[key]

SameCountry(a, b) == TruthyTag(a, "country") /\ Has(b, "country") /\ a.country = b.country

\* same name up to case, same age, same country
SharesNameAgeCountry(a, b) ==
    /\ Truthy(a, "name") /\ Has(b, "name") /\ ToLowerCase(a.name) = ToLowerCase(b.name)
    /\ TruthyNum(a, "age") /\ Has(b, "age") /\ a.age = b.age
    /\ SameCountry(a, b)

\* C1: the result of analyzeDuplicates has isDuplicate = TRUE exactly when its
\* list of duplicates is not empty.
C1_IsDuplicateIffNonEmpty ==
    Analyzed => (result.isDuplicate <=> result.duplicatePatients # <<>>)

C1_Witness ==
    /\ Analyzed /\ result.isDuplicate /\ Len(result.duplicatePatients) = 1
    /\ Len(store) = 2

\* C2: when the store holds a record with a national identifier value v, a call of
\* analyzeDuplicates on a record with the same value and the same country returns
\* isDuplicate = TRUE with that stored record among the duplicates.
C2_SameIdentifierIsDuplicate ==
    AnalyzeEnded =>
        \A i \in 1..Len(store) : \A key \in IdPaths :
            SharesId(req, store[i], key) /\ SameCountry(req, store[i])
                => /\ Analyzed
                   /\ result.isDuplicate
                   /\ store[i] \in Elems(result.duplicatePatients)

\* C3: a returned analysis of a record with name, age and country lists every
\* stored record of the same name (up to case), age and country.
C3_SameNameAgeCountryListed ==
    Analyzed =>
        \A i \in 1..Len(store) :
            SharesNameAgeCountry(req, store[i])
                => store[i] \in Elems(result.duplicatePatients)

\* C4: for each of the four countries, a returned analysis lists every stored
\* record of the submitted record's country that carries the same value of the
\* country's required identifier.
C4_RequiredIdentifierListed ==
    Analyzed =>
        \A i \in 1..Len(store) : \A country \in Countries :
            /\ SameCountry(req, store[i]) /\ req.country = country
            /\ SharesId(req, store[i], RequiredKey(country))
            => store[i] \in Elems(result.duplicatePatients)

\* the record carries no name and no identifier
NoNameNoIdentifiers(rec) ==
    /\ ~Truthy(rec, "name")
    /\ \A key \in DOMAIN CountryDataOf(rec) : CountryDataOf(rec)[key] = <<>>

\* C5: a match request on a record with no name and no identifiers is refused as
\* invalid input and issues no store query.
C5_NoNameNoIdentifiersRefused ==
    MatchEnded /\ NoNameNoIdentifiers(req)
        => result.kind = "invalid" /\ queries = <<>>

\* the stored record is an exact match of the query record
IsExactMatch(rec, doc) ==
    \/ \E key \in DOMAIN CountryDataOf(rec) : SharesId(rec, doc, key)
    \/ SharesNameAgeCountry(rec, doc)

\* C6: every record findMatches returns in exactMatches shares an identifier value
\* or name, age and country with the query record.
C6_ExactMatchesAreExact ==
    Matched =>
        \A i \in 1..Len(result.exactMatches) : IsExactMatch(req, result.exactMatches[i])

\* no unique identifier, and not all of name, age and country
ZeroQualifyingFields(rec) ==
    /\ \A key \in IdPaths : ~Truthy(CountryDataOf(rec), key)
    /\ ~(Truthy(rec, "name") /\ TruthyNum(rec, "age") /\ TruthyTag(rec, "country"))

\* C7: analyzeDuplicates on a record with zero qualifying fields issues no store
\* query and returns no duplicates, and no query it issues has an empty disjunction.
C7_ZeroQualifyingNoQuery ==
    /\ AnalyzeEnded /\ ZeroQualifyingFields(req)
          => Analyzed /\ queries = <<>> /\ result.duplicatePatients = <<>>
    /\ AnalyzeEnded =>
          \A i \in 1..Len(queries) : queries[i].kind = "or" => queries[i].clauses # <<>>

C7_Witness ==
    /\ Analyzed /\ ZeroQualifyingFields(req)
    /\ Truthy(req, "name") /\ TruthyTag(req, "country")
    /\ Truthy(CountryDataOf(req), "hospitalPatientID")
    /\ \E i \in 1..Len(store) : SharesId(req, store[i], "hospitalPatientID")

AllAboveHalf(partialMatches) ==
    \A i \in 1..Len(partialMatches) : RatGT(partialMatches[i].matchScore, Rat(5, 10))

\* C8 as stated: partialMatches is sorted strictly descending by score and every
\* entry scores above 0.5.
C8_StrictlyDescending ==
    Matched =>
        /\ \A i \in 1..(Len(result.partialMatches) - 1) :
              RatGT(result.partialMatches[i].matchScore,
                    result.partialMatches[i + 1].matchScore)
        /\ AllAboveHalf(result.partialMatches)

\* C8 as amended: partialMatches is sorted by score in non-increasing order (equal
\* scores may follow one another) and every entry scores above 0.5.
C8_NonIncreasing ==
    Matched =>
        /\ \A i \in 1..(Len(result.partialMatches) - 1) :
              ~RatGT(result.partialMatches[i + 1].matchScore,
                     result.partialMatches[i].matchScore)
        /\ AllAboveHalf(result.partialMatches)

\* two entries of different scores, returned by the store in ascending order
C8_Witness ==
    /\ Matched /\ Len(result.partialMatches) = 2
    /\ RatGT(result.partialMatches[1].matchScore, result.partialMatches[2].matchScore)
    /\ result.partialMatches[1].patient._id > result.partialMatches[2].patient._id

\* C9: no stored record is both in exactMatches and in partialMatches.
C9_ExactAndPartialDisjoint ==
    Matched =>
        Ids(result.exactMatches)
            \cap {result.partialMatches[i].patient._id : i \in 1..Len(result.partialMatches)}
        = {}

\* an exact match that the text query would return and that scores above 0.5
C9_Witness ==
    /\ Matched /\ result.partialMatches # <<>>
    /\ \E i \in 1..Len(result.exactMatches) :
          LET doc == result.exactMatches[i] IN
          /\ Terms(req.name) \cap Terms(doc.name) # {}
          /\ SameCountry(req, doc)
          /\ RatGT(calculateOverallMatchScore(req, doc), Rat(5, 10))

\* the duplicates whose name is more than 0.8 similar to the submitted name
NearIdentical(name, duplicatePatients) ==
    SelectSeq(duplicatePatients,
              LAMBDA d : RatGT(calculateNameSimilarity(name, d.name), Rat(8, 10)))

\* C10: the suggestions are, in the order of the duplicates, one per duplicate whose
\* name similarity exceeds 0.8: field 'name', the duplicate's name, that similarity.
C10_SuggestionsForNearIdentical ==
    Analyzed =>
        LET near == NearIdentical(NameOr(req), result.duplicatePatients) IN
        /\ Len(result.suggestions) = Len(near)
        /\ \A i \in 1..Len(result.suggestions) :
              /\ result.suggestions[i].field = "name"
              /\ result.suggestions[i].suggestedValue = near[i].name
              /\ result.suggestions[i].confidence
                    = calculateNameSimilarity(NameOr(req), near[i].name)
              /\ RatGT(result.suggestions[i].confidence, Rat(8, 10))

\* two duplicates of different names: the first passed over, the second suggested
C10_Witness ==
    /\ Analyzed /\ Len(result.duplicatePatients) = 2 /\ Len(result.suggestions) = 1
    /\ result.duplicatePatients[1].name # result.duplicatePatients[2].name
    /\ result.suggestions[1].suggestedValue = result.duplicatePatients[2].name

\* C11: in a returned analysis validationErrors is a function of the submitted
\* record alone (the same record gives the same list against any store content),
\* and duplicates is the exact lookup whether or not validation fails.
C11_ValidationIndependentOfStore ==
    Analyzed =>
        /\ result.validationErrors = validateCountrySpecificFields(req)
        /\ result.duplicatePatients = findDuplicates(store, req)

\* a result carrying both a duplicate and a validation error
C11_Witness ==
    /\ Analyzed
    /\ result.duplicatePatients # <<>>
    /\ result.validationErrors # <<>>

\* the analysis the content script was handed carries duplicates and validation errors
BothSignals ==
    /\ ext.analysis.kind = "analysis"
    /\ ext.analysis.duplicatePatients # <<>>
    /\ ext.analysis.validationErrors # <<>>

Validated == result.kind = "validation"

\* the field is absent or holds an empty value
Missing(rec, key) == ~Has(rec, key) \/ rec[key] = (IF key = "age" THEN 0 ELSE <<>>)

\* C13: for a UK record with name and age and without nhsNumber, whether its
\* countryData is empty or absent, the validator returns exactly one error, the one
\* naming the NHS number.
C13_UkMissingNhsOneError ==
    Validated /\ req.country = "UK" /\ ~Missing(req, "name") /\ ~Missing(req, "age")
              /\ Missing(CountryDataOf(req), "nhsNumber")
        => result.validationErrors = <<"NHS Number is required">>

\* C14: for a record of one of the four countries, a missing name and a missing age
\* are each reported, whatever identifiers the record carries or lacks.
C14_NameAndAgeRequired ==
    Validated /\ req.country \in Countries =>
        /\ Missing(req, "name") => "Name is required" \in Elems(result.validationErrors)
        /\ Missing(req, "age") => "Age is required" \in Elems(result.validationErrors)

\* the format message of an identifier that is present and fails its pattern
FormatMessages(rec) ==
    LET cd == CountryDataOf(rec) IN
    (IF ~Missing(cd, "nhsNumber") /\ ~IsNhsNumber(cd.nhsNumber) /\ rec.country = "UK"
     THEN <<"NHS Number must be 10 digits">> ELSE <<>>)
    \o (IF ~Missing(cd, "ssn") /\ ~IsSsn(cd.ssn) /\ rec.country = "US"
        THEN <<"SSN must be in format XXX-XX-XXXX">> ELSE <<>>)

\* one message per missing required field or failing value, in the order name, age,
\* required identifier, format constraints
ExpectedErrors(rec) ==
    (IF Missing(rec, "name") THEN <<"Name is required">> ELSE <<>>)
    \o (IF Missing(rec, "age") THEN <<"Age is required">> ELSE <<>>)
    \o (IF Missing(CountryDataOf(rec), RequiredKey(rec.country))
        THEN <<RequiredMessage(rec.country)>> ELSE <<>>)
    \o FormatMessages(rec)

\* C15: the validator returns one message per missing required field or per value
\* failing its pattern, in the order name, age, required identifier, format
\* constraints, and so the empty list exactly when the record is compliant.
C15_ErrorsAreExpected ==
    Validated /\ req.country \in Countries =>
        result.validationErrors = ExpectedErrors(req)

Compared == result.kind = "similarity"

\* the lowercased words of a string: its maximal runs of characters other than space
RECURSIVE WordsFrom(_, _)
WordsFrom(str, word) ==
    LET done == IF word = <<>> THEN <<>> ELSE <<word>> IN
    IF str = <<>> THEN done
    ELSE IF Head(str) = " " THEN done \o WordsFrom(Tail(str), <<>>)
    ELSE WordsFrom(Tail(str), Append(word, ToLower(Head(str))))

\* equal up to case, surrounding whitespace and the length of internal whitespace
EqualNormalized(a, b) == WordsFrom(a, <<>>) = WordsFrom(b, <<>>)

\* C16: the similarity of two names is 1 when they are equal after normalization
\* (lowercase, trim, collapse whitespace), and strictly below 1 when they are not.
C16_OneIffEqualNormalized ==
    Compared =>
        IF EqualNormalized(req.name1, req.name2)
        THEN result.value.num = result.value.den
        ELSE RatGT(Rat(1, 1), result.value)

\* two different strings that are equal after normalization, scored 1
C16_Witness ==
    /\ Compared
    /\ req.name1 # req.name2
    /\ ToLowerCase(req.name1) # ToLowerCase(req.name2)
    /\ req.name1 = jWideO
    /\ Len(req.name2) < Len(req.name1)
    /\ EqualNormalized(req.name1, req.name2)
    /\ result.value = Rat(1, 1)

\* C17: the similarity of (a, b) equals the similarity of (b, a).
C17_Symmetric ==
    Compared =>
        /\ result.value.den > 0 /\ result.reverse.den > 0
        /\ result.value.num * result.reverse.den = result.reverse.num * result.value.den

\* two names of different lengths, neither a copy of the other, scored alike
C17_Witness ==
    /\ Compared
    /\ Len(normalize(req.name1)) < Len(normalize(req.name2))
    /\ RatGT(result.value, Rat(0, 1))
    /\ RatGT(Rat(1, 1), result.value)
    /\ result.value = result.reverse

ScoreTaken == result.kind = "score"

\* the search record and the candidate agree on name, age, country and identifiers
IdenticalWeighted(searchData, patient) ==
    /\ Has(searchData, "name") /\ searchData.name = patient.name
    /\ Has(searchData, "age") /\ searchData.age = patient.age
    /\ Has(searchData, "country") /\ searchData.country = patient.country
    /\ CountryDataOf(searchData) = CountryDataOf(patient)

\* C18: the overall score lies between 0 and 1 for every search record and
\* candidate, and is exactly 1 when the two agree on every weighted field.
C18_ScoreInUnitInterval ==
    ScoreTaken =>
        /\ result.value.den > 0
        /\ result.value.num >= 0
        /\ result.value.num <= result.value.den
        /\ IdenticalWeighted(req.searchData, req.patient)
             => result.value.num = result.value.den

\* a score of 1 for a search record identical to a candidate that carries none of
\* the compared identifiers
C18_Witness ==
    /\ ScoreTaken
    /\ IdenticalWeighted(req.searchData, req.patient)
    /\ CommonFields(req.searchData, req.patient) = {}
    /\ result.value.num = result.value.den

\* a step of an engine call: a handler produced a response or reached its await
EngineStep == result' # result /\ result'.kind # "none"

\* C19: every step of analyzeDuplicates and of findMatches leaves the patient store
\* as it was, and findMatches reads the same search record in its second query as
\* in its first.
C19_EngineReadOnly ==
    [][EngineStep => /\ store' = store
                     /\ pc = "broad" => req' = req]_vars

\* a completed findMatches whose two queries both returned stored records
C19_Witness ==
    /\ Matched
    /\ Len(queries) = 2
    /\ result.exactMatches # <<>>
    /\ result.partialMatches # <<>>
    /\ Elems(result.exactMatches) \subseteq Elems(store)

StoreFailed == failed # "none"

\* C20: when a store query of analyzeDuplicates or of findMatches is rejected (the
\* $or query, the exact query, or the text query after a successful exact query),
\* the caller gets an error: no analysis and no match result.
C20_StoreFailureSurfaces ==
    StoreFailed =>
        /\ result.kind = "error"
        /\ ~Analyzed
        /\ ~Matched

\* the text query was rejected after the exact query had found a record
C20_Witness ==
    /\ failed = "text"
    /\ result.kind = "error"
    /\ Len(queries) = 2
    /\ Find(store, queries[1].filter) # <<>>

\* what findMatches returns to POST /match when it runs alone on the documents
MatchAlone(docs, searchData) ==
    IF MatchRejects(searchData) THEN [kind |-> "invalid"]
    ELSE IF MatchThrows(searchData) THEN [kind |-> "error", op |-> "findMatches"]
    ELSE LET exact == Find(docs, ExactQuery(searchData)) IN
         [kind |-> "match", exactMatches |-> exact,
          partialMatches |->
              IF Truthy(searchData, "name")
              THEN SortByScore(Scored(searchData,
                       FindText(docs, searchData.name, searchData, Ids(exact))))
              ELSE <<>>]

\* what analyzeDuplicates returns to POST /analyze when it runs alone
AnalysisAlone(docs, extractedData) ==
    IF DuplicatesThrows(extractedData) THEN [kind |-> "error", op |-> "analyzeDuplicates"]
    ELSE analyzeDuplicates(docs, extractedData)

\* C21: over a store that does not change, a call that ran interleaved with another
\* call returns what it returns when it runs alone on that store.
C21_ConcurrentCallsIndependent ==
    \A c \in CallIds :
        calls[c].pc = "done" =>
            calls[c].result = IF calls[c].op = "findMatches"
                              THEN MatchAlone(store, calls[c].req)
                              ELSE AnalysisAlone(store, calls[c].req)

\* a findMatches call completed with exact and partial matches while the other call
\* waits between its two queries with different exact matches
C21_Witness ==
    /\ calls[1].pc = "broad"
    /\ calls[2].pc = "done" /\ calls[2].op = "findMatches"
    /\ calls[2].result.kind = "match"
    /\ calls[2].result.partialMatches # <<>>
    /\ calls[2].result.exactMatches # <<>>
    /\ calls[1].exactMatches # calls[2].result.exactMatches

\* C22: for the same record on the same store, the records findMatches returns as
\* exactMatches are the records analyzeDuplicates returns as duplicates.
C22_SameExactLookup ==
    \A c, d \in CallIds :
        /\ calls[c].pc = "done" /\ calls[c].result.kind = "match"
        /\ calls[d].pc = "done" /\ calls[d].result.kind = "analysis"
        /\ calls[c].req = calls[d].req
        => Elems(calls[c].result.exactMatches) = Elems(calls[d].result.duplicatePatients)

\* the words joined by single spaces
RECURSIVE JoinWords(_)
JoinWords(words) ==
    IF words = <<>> THEN <<>>
    ELSE IF Len(words) = 1 THEN words[1]
    ELSE words[1] \o <<" ">> \o JoinWords(Tail(words))

\* lowercased, trimmed, internal whitespace collapsed
NormalForm(str) == JoinWords(WordsFrom(str, <<>>))

\* the unit-cost edit distance: insertions, deletions and substitutions
Levenshtein(a, b) ==
    LET lev[i \in 0..Len(a), j \in 0..Len(b)] ==
            IF i = 0 THEN j
            ELSE IF j = 0 THEN i
            ELSE Min3(lev[i - 1, j] + 1, lev[i, j - 1] + 1,
                      lev[i - 1, j - 1] + (IF a[i] = b[j] THEN 0 ELSE 1))
    IN  lev[Len(a), Len(b)]

\* C23: the similarity is (maxLen - d) / maxLen for the edit distance d of the
\* normalized strings and the longer normalized length maxLen, 1 when maxLen is 0,
\* and lies between 0 and 1.
C23_SimilarityIsLevenshteinRatio ==
    Compared =>
        LET a == NormalForm(req.name1)
            b == NormalForm(req.name2)
            maxLen == Max2(Len(a), Len(b))
            v == result.value
        IN  /\ v.den > 0 /\ v.num >= 0 /\ v.num <= v.den
            /\ IF maxLen = 0 THEN v.num = v.den
               ELSE v.num * maxLen = (maxLen - Levenshtein(a, b)) * v.den

\* 'kitten' and 'sitting': distance 3, similarity 4/7
C23_Witness ==
    /\ Compared
    /\ req.name1 = kitten /\ req.name2 = sitting
    /\ Levenshtein(kitten, sitting) = 3
    /\ result.value = Rat(4, 7)

\* the identifier keys of the four countries: the required identifier of each, and
\* the further keys the engine queries or compares
IdentifierKeys ==
    {"nhsNumber", "mrn", "hospitalUidAadhaar", "hospitalPatientID", "ssn",
     "healthInsurancePolicyNumber"}

\* the keys among keys that both records carry with a value
KeysOnBoth(searchData, patient, keys) ==
    {k \in keys : /\ Truthy(CountryDataOf(searchData), k)
                  /\ Truthy(CountryDataOf(patient), k)}

KeysEqual(searchData, patient, keys) ==
    {k \in KeysOnBoth(searchData, patient, keys) :
        searchData.countryData[k] = patient.countryData[k]}

\* the score is the sum of weight * partial score over the components both records
\* provide, divided by the sum of their weights, and 0 when there is none; the
\* identifier component is taken over keys
IsWeightedScore(value, searchData, patient, keys) ==
    LET nameIn == Truthy(searchData, "name") /\ Truthy(patient, "name")
        ageIn == Has(searchData, "age") /\ Has(patient, "age")
        countryIn == TruthyTag(searchData, "country") /\ TruthyTag(patient, "country")
        idsIn == KeysOnBoth(searchData, patient, keys) # {}
        nameScore == IF nameIn THEN calculateNameSimilarity(searchData.name, patient.name)
                     ELSE Rat(0, 1)
        ageScore == IF ageIn
                    THEN Rat(Max2(0, 10 - Abs(searchData.age - patient.age)), 10)
                    ELSE Rat(0, 1)
        countryScore == IF countryIn /\ searchData.country = patient.country
                        THEN Rat(1, 1) ELSE Rat(0, 1)
        idsScore == IF idsIn
                    THEN Rat(Cardinality(KeysEqual(searchData, patient, keys)),
                             Cardinality(KeysOnBoth(searchData, patient, keys)))
                    ELSE Rat(0, 1)
        weights == (IF nameIn THEN 4 ELSE 0) + (IF ageIn THEN 2 ELSE 0)
                   + (IF countryIn THEN 1 ELSE 0) + (IF idsIn THEN 3 ELSE 0)
        den == nameScore.den * ageScore.den * idsScore.den
        sum == 4 * nameScore.num * ageScore.den * idsScore.den
               + 2 * ageScore.num * nameScore.den * idsScore.den
               + countryScore.num * den
               + 3 * idsScore.num * nameScore.den * ageScore.den
    IN  IF weights = 0 THEN value.num = 0
        ELSE value.num * (weights * den) = sum * value.den

\* C24: the overall score is the weighted sum of the partial scores (name 0.4, age
\* 0.2 with linear decay over 10 years, country 0.1, identifiers 0.3) divided by the
\* weights of the components that both the search record and the candidate provide,
\* and 0 when no component qualifies.
C24_WeightedOverIncluded ==
    ScoreTaken => IsWeightedScore(result.value, req.searchData, req.patient, IdentifierKeys)

\* the search record carries identifiers only
IdentifiersOnly(searchData) == DOMAIN searchData = {"countryData"}

\* C25: for a search record of identifiers only, the score is the fraction of the
\* identifier keys present on both sides whose values are equal, over the identifier
\* keys of every country, and 0 (the component left out) when no key is on both sides.
C25_IdentifierFraction ==
    ScoreTaken /\ IdentifiersOnly(req.searchData) =>
        LET both == KeysOnBoth(req.searchData, req.patient, IdentifierKeys)
            equal == KeysEqual(req.searchData, req.patient, IdentifierKeys)
        IN  IF both = {} THEN result.value.num = 0
            ELSE result.value.num * Cardinality(both) = Cardinality(equal) * result.value.den

\* C26: the broad lookup of findMatches runs only for a search record with a name and
\* is scoped to its country: without a name partialMatches is empty, and every
\* record of partialMatches has the country of the search record.
C26_BroadScopedToCountry ==
    Matched =>
        /\ ~Truthy(req, "name") => result.partialMatches = <<>>
        /\ \A i \in 1..Len(result.partialMatches) :
              /\ Has(req, "country")
              /\ result.partialMatches[i].patient.country = req.country

\* a partial match was returned while the store holds a record of another country
\* that shares a name term with the search record, is no exact match and scores
\* above 0.5
C26_Witness ==
    /\ Matched /\ result.partialMatches # <<>>
    /\ \E i \in 1..Len(store) :
          /\ Terms(req.name) \cap Terms(store[i].name) # {}
          /\ store[i].country # req.country
          /\ store[i]._id \notin Ids(result.exactMatches)
          /\ RatGT(calculateOverallMatchScore(req, store[i]), Rat(5, 10))

\* the analysis of the extraction reported duplicates
BgDuplicate == Has(bg.analysis, "success") /\ DuplicatesFound(bg.analysis)

\* the analysis of the extraction ended without duplicates, or failed
BgNoDuplicate == Has(bg.analysis, "success") /\ ~DuplicatesFound(bg.analysis)

\* C27: in the background script's extraction flow, once the analysis reported
\* duplicates no save request is issued for the extracted data before the user's
\* confirmSaveDuplicate; after a cancel, or with no answer, there is no save.
C27_NoSaveBeforeConfirmation ==
    BgDuplicate /\ ~bg.confirmed => bg.saves = 0

\* duplicates were reported for data the store would accept, the user was asked and
\* cancelled
C27_Witness ==
    /\ BgDuplicate /\ bg.phase = "cancelled" /\ bg.saves = 0
    /\ SchemaValid(bg.data) /\ Len(store) < MaxStore

\* C28: in the background script's extraction flow, when the analysis reported no
\* duplicates or failed, the finished handler has issued a save request and the form
\* tab was sent extractionSaved or extractionSaveFailed.
C28_SavesWithoutDuplicates ==
    BgNoDuplicate /\ bg.phase = "done" =>
        /\ bg.saves > 0
        /\ \E i \in 1..Len(bg.sent) : bg.sent[i] \in {"extractionSaved", "extractionSaveFailed"}

\* the content script sent the submission's data to the save endpoint (saveDataDirectly
\* shows one of its two messages after the request)
SaveSent == ext.shown \cap {"success", "error"} # {}

\* the analysis of the submission reported no duplicates and no validation errors
CleanAnalysis ==
    /\ ext.analysis.kind = "analysis"
    /\ ~(ext.analysis.isDuplicate /\ ext.analysis.duplicatePatients # <<>>)
    /\ ext.analysis.validationErrors = <<>>

\* the duplicate dialog was shown for the submission and is closed
DialogAnswered == "duplicates" \in ext.shown /\ ext.phase = "done"

AnalysisFailed == ext.analysis.kind = "failed"

SameIdentity(a, b) ==
    /\ SameCountry(a, b)
    /\ \E key \in IdentifierKeys : SharesId(a, b, key)

\* the submission of tab t was saved without a confirmed duplicate
SavedUnconfirmed(t) == flows[t].saved /\ ~flows[t].confirmed

\* C30: of two interleaved flows (analyze, then save when no duplicate is reported)
\* submitting records of the same country and national identifier to a store holding
\* no such record, at most one record is saved without the user confirming a duplicate.
C30_AtMostOneUnconfirmedSave ==
    SameIdentity(flows[1].data, flows[2].data) =>
        ~(SavedUnconfirmed(1) /\ SavedUnconfirmed(2))

=============================================================================
